---- MODULE Spec2Model ----
(***************************************************************************)
(* Model of src/app.py: a Flask application with a password gate, a video  *)
(* upload pipeline (local copy + remote media host), a CSV event log and   *)
(* two "latest story" queries that scan the log.                           *)
(*                                                                         *)
(* File names and URLs are sequences of characters, so that allowed_file   *)
(* and secure_filename are computed character by character.  The log file  *)
(* is the sequence of its CSV rows, the header row first; a row is the     *)
(* sequence of its six fields.                                             *)
(***************************************************************************)
EXTENDS Integers, Sequences, FiniteSets, TLC

\* ------------------------------------------------------------------ bounds
\* largest number of data rows the log file is let grow to
MaxLog == 2
\* number of requests served in parallel in SpecPar
MaxProcs == 2

\* ------------------------------------------------------------ configuration
\* app.py:22
ALLOWED_EXTENSIONS ==
    { <<"m","p","4">>, <<"m","o","v">>, <<"w","e","b","m">>,
      <<"o","g","g">>, <<"m","k","v">> }

\* app.py:44, the default of os.getenv('ADMIN_PASSWORD', 'mrshaik')
ADMIN_PASSWORD == "mrshaik"

\* app.py:31, the header row written when the log file is created
Header == <<"timestamp", "ip", "event", "password", "chat", "story_url">>

\* the empty string, as a URL (URLs are character sequences)
EmptyUrl == <<>>

\* ------------------------------------------------------------------ strings
\* str.lower() on the characters the model uses
ToLower == [M |-> "m", O |-> "o", V |-> "v", P |-> "p", A |-> "a"]
Lower(c) == IF c \in DOMAIN ToLower THEN ToLower[c] ELSE c
LowerStr(s) == [i \in 1..Len(s) |-> Lower(s[i])]

\* index of the last "." of s, 0 when there is none
LastDot(s) ==
    LET dots == {i \in 1..Len(s) : s[i] = "."}
    IN IF dots = {} THEN 0 ELSE CHOOSE i \in dots : \A j \in dots : j <= i

\* filename.rsplit('.', 1)[1]
Extension(s) == SubSeq(s, LastDot(s) + 1, Len(s))

\* mutant: the extension is compared without lower()
allowed_file_CaseSensitive(filename) ==
    /\ LastDot(filename) # 0
    /\ Extension(filename) \in ALLOWED_EXTENSIONS

\* mutant: every file name with a dot is accepted
allowed_file_AnyExtension(filename) ==
    LastDot(filename) # 0

\* app.py:47-49
allowed_file(filename) ==
    /\ LastDot(filename) # 0
    /\ LowerStr(Extension(filename)) \in ALLOWED_EXTENSIONS

\* characters kept by werkzeug's _filename_ascii_strip_re, [^A-Za-z0-9_.-]
SafeChars ==
    {"a","b","c","i","l","m","n","o","p","s","t","v","x","4",
     "A","M","O","P","V","_",".","-"}

\* for sep in os.sep, os.path.altsep: filename.replace(sep, " ")
ReplaceSep(s) == [i \in 1..Len(s) |-> IF s[i] = "/" THEN " " ELSE s[i]]

\* "_".join(s.split()): runs of white space become one "_", leading and
\* trailing white space is dropped
RECURSIVE JoinSplit(_, _, _)
JoinSplit(s, i, acc) ==
    IF i > Len(s) THEN acc
    ELSE IF s[i] = " "
         THEN JoinSplit(s, i + 1, acc)
         ELSE IF i > 1 /\ s[i-1] = " " /\ acc # <<>>
              THEN JoinSplit(s, i + 1, acc \o <<"_", s[i]>>)
              ELSE JoinSplit(s, i + 1, Append(acc, s[i]))

\* str.strip("._")
RECURSIVE LStrip(_)
LStrip(s) == IF s # <<>> /\ Head(s) \in {".", "_"} THEN LStrip(Tail(s)) ELSE s
RECURSIVE RStrip(_)
RStrip(s) ==
    IF s # <<>> /\ s[Len(s)] \in {".", "_"}
    THEN RStrip(SubSeq(s, 1, Len(s) - 1)) ELSE s

\* mutant: the name is used as submitted, without sanitising
secure_filename_Raw(filename) == filename

\* werkzeug.utils.secure_filename, called at app.py:129
secure_filename(filename) ==
    RStrip(LStrip(SelectSeq(JoinSplit(ReplaceSep(filename), 1, <<>>),
                            LAMBDA c : c \in SafeChars)))

\* url_for('uploaded_file', filename=filename, _external=True), app.py:151:
\* the route of app.py:207 followed by the name
LocalUrl(filename) == <<"http://host", "/uploads/">> \o filename

\* ------------------------------------------------------------------- inputs
\* the name of the 'video' file field; <<>> is the empty file name the
\* browser sends when no file was selected (app.py:117)
Filenames ==
    { <<>>,
      <<"c","l","i","p">>,
      <<"n","o","t","e","s",".","t","x","t">>,
      <<"a",".","m","p","4">>,
      <<".",".","/","a",".","m","p","4">>,
      <<"b",".","M","O","V">> }

\* the hidden form field 'uploader'; NoField when the form has none
NoField == "<none>"
Uploaders == {NoField, "admin"}

\* the bytes of an uploaded file
Contents == {"video-1", "video-2"}
\* no file of that name in STORY_FOLDER
NoFile == "<no file>"

\* the bytes sent under each file name
ContentOf(filename) ==
    IF filename = <<".",".","/","a",".","m","p","4">>
    THEN "video-2" ELSE "video-1"

\* request.remote_addr; NoAddr is None
NoAddr == "<None>"
RemoteAddrs == {"10.0.0.7"}

\* datetime.now().strftime(...), app.py:56: the reading of the wall clock
Timestamps == {"2026-01-01 00:00:00"}

\* the 'password' of the JSON body of /save_password; NoField when the body
\* has no such key or is null (data.get('password', ''), app.py:87-88)
Passwords == {"mrshaik", "guess"}
\* the 'chat' of the JSON body of /log_chat
Chats == {"hello", "admin_story_upload"}

\* outcome of file.save(local_path), app.py:131-135
LocalOutcomes == {"saved", "raised"}
\* outcome of cloudinary.uploader.upload_large, app.py:141-146: it raises, or
\* returns the dict of the media host's answer, which for a stored video
\* carries the 'secure_url' of the asset
RemoteUrl == <<"https://media", "/stories/v1.mp4">>
UploadResults == { [secure_url |-> RemoteUrl, resource_type |-> <<"video">>] }
NoResult == [resource_type |-> <<>>]
RemoteOutcomes ==
    { [raised |-> TRUE, result |-> NoResult] } \cup
    { [raised |-> FALSE, result |-> r] : r \in UploadResults }
\* outcome of opening and appending to LOG_FILE, app.py:57-62
LogOutcomes == {"written", "raised"}
\* outcome of opening and reading LOG_FILE, app.py:167-175
ReadOutcomes == {"read", "raised"}

\* dict.get(key, default)
Get(d, key, default) == IF key \in DOMAIN d THEN d[key] ELSE default

\* the names a stored file can have in STORY_FOLDER
StoredNames == { secure_filename(f) : f \in {g \in Filenames : allowed_file(g)} }

\* -------------------------------------------------------------------- state
VARIABLES
    log,        \* LOG_FILE: the rows of logs.csv, the header first
    files,      \* STORY_FOLDER: stored name -> bytes, or NoFile
    op,         \* the handler that served the last request
    inp,        \* the inputs of the last request
    env,        \* what the environment did during the last request
    resp,       \* the response to the last request
    prevLog,    \* log as it was when the last request arrived
    prevFiles,  \* files as it was when the last request arrived
    hookUrl,    \* GOOGLE_SCRIPT_URL, app.py:41; "" when not configured
    pc,         \* per request served in parallel: where its handler is
    req,        \* per request: what the client sent
    prow,       \* per request: the row its log_event call writes
    pos,        \* per request: the file offset its write starts at
    vurl,       \* per request: video_url of the upload handler
    presp,      \* per request: the response it was given
    trace       \* per request: the steps its handler has taken

seqVars == <<op, inp, env, resp, prevLog, prevFiles>>
parVars == <<hookUrl, pc, req, prow, pos, vurl, presp, trace>>
vars == <<log, files, seqVars, parVars>>

\* the requests served in parallel
Procs == 1..MaxProcs

NoInput ==
    [hasFile |-> FALSE, filename |-> <<>>, uploader |-> NoField,
     content |-> NoFile, password |-> NoField, chat |-> NoField]
NoEnv ==
    [local |-> "none", remote |-> [raised |-> FALSE, result |-> NoResult],
     logw |-> "none", read |-> "none",
     saves |-> 0, remoteCalls |-> 0, appends |-> 0, url |-> EmptyUrl]

Response(status, kind, text, url) ==
    [status |-> status, kind |-> kind, text |-> text, url |-> url]

\* no request is being served
NoRequest ==
    [kind |-> "none", hasFile |-> FALSE, filename |-> <<>>,
     uploader |-> NoField, body |-> NoField]

Idle ==
    /\ pc = [p \in Procs |-> "idle"]
    /\ req = [p \in Procs |-> NoRequest]
    /\ prow = [p \in Procs |-> <<>>]
    /\ pos = [p \in Procs |-> 0]
    /\ vurl = [p \in Procs |-> EmptyUrl]
    /\ presp = [p \in Procs |-> Response(0, "none", "", EmptyUrl)]
    /\ trace = [p \in Procs |-> <<>>]

\* app.py:27-31: the log file exists with its header; STORY_FOLDER is empty
Init ==
    /\ log = <<Header>>
    /\ files = [n \in StoredNames |-> NoFile]
    /\ op = "start"
    /\ inp = NoInput
    /\ env = NoEnv
    /\ resp = Response(0, "none", "", EmptyUrl)
    /\ prevLog = <<Header>>
    /\ prevFiles = [n \in StoredNames |-> NoFile]
    /\ hookUrl = ""
    /\ Idle

\* ---------------------------------------------------------------- event log
\* request.remote_addr or 'unknown'
Ip(addr) == IF addr = NoAddr THEN "unknown" ELSE addr

\* the row log_event writes, app.py:60
Row(ts, ip, event, password, chat, story_url) ==
    <<ts, ip, event, password, chat, story_url>>

\* mutant: the log file is opened with mode 'w', which truncates it
log_event_Truncate(f, row, out) ==
    IF out = "written" THEN <<Header, row>> ELSE f

\* mutant: the row is written twice
log_event_Twice(f, row, out) ==
    IF out = "written" THEN Append(Append(f, row), row) ELSE f

\* app.py:51-62: the file after log_event; a failure to open or write is
\* caught and leaves the file as it was
log_event(f, row, out) ==
    IF out = "written" THEN Append(f, row) ELSE f

\* csv.DictReader, app.py:169: the first row names the columns, each later
\* row is a dict from column name to field
DictReader(f) ==
    [i \in 1..(Len(f) - 1) |->
        [k \in {f[1][c] : c \in 1..Len(f[1])} |->
            f[i + 1][CHOOSE c \in 1..Len(f[1]) : f[1][c] = k]]]

\* app.py:170-173 and 187-190: for row in reversed(rows), the first row
\* whose event is kind and whose story_url is non-empty
RECURSIVE ScanReversed(_, _, _)
ScanReversed(rows, i, kind) ==
    IF i = 0 THEN EmptyUrl
    ELSE IF /\ Get(rows[i], "event", "") = kind
            /\ Get(rows[i], "story_url", EmptyUrl) # EmptyUrl
         THEN rows[i]["story_url"]
         ELSE ScanReversed(rows, i - 1, kind)

\* mutant: the rows are scanned oldest first
find_latest_Forward(f, kind, out) ==
    LET rows == DictReader(f)
        hits == {i \in 1..Len(rows) :
                    /\ rows[i]["event"] = kind
                    /\ rows[i]["story_url"] # EmptyUrl}
    IN IF out = "raised" \/ hits = {} THEN EmptyUrl
       ELSE rows[CHOOSE i \in hits : \A j \in hits : i <= j]["story_url"]

\* mutant: a read error is not caught and surfaces as a marker URL
find_latest_Uncaught(f, kind, out) ==
    IF out = "raised" THEN <<"error">>
    ELSE ScanReversed(DictReader(f), Len(f) - 1, kind)

\* mutant: the newest row is not seen by the scan
find_latest_Stale(f, kind, out) ==
    IF out = "raised" \/ Len(f) < 2 THEN EmptyUrl
    ELSE ScanReversed(DictReader(f), Len(f) - 2, kind)

\* mutant: the event column is not tested
find_latest_AnyKind(f, kind, out) ==
    LET rows == DictReader(f)
        hits == {i \in 1..Len(rows) : rows[i]["story_url"] # EmptyUrl}
    IN IF out = "raised" \/ hits = {} THEN EmptyUrl
       ELSE rows[CHOOSE i \in hits : \A j \in hits : j <= i]["story_url"]

\* app.py:166-175 and 183-192: url is '' when reading raises
find_latest(f, kind, out) ==
    IF out = "raised" THEN EmptyUrl
    ELSE ScanReversed(DictReader(f), Len(f) - 1, kind)

\* ------------------------------------------------------------ upload pipeline
\* the data rows of the log file
DataRows(f) == Len(f) - 1

\* mutant: the local copy is written only when no file of that name exists
SaveLocal_KeepExisting(fs, name, content, out) ==
    IF out = "saved" /\ fs[name] = NoFile
    THEN [fs EXCEPT ![name] = content] ELSE fs

\* mutant: a failed write removes the file it was writing
SaveLocal_RemoveOnError(fs, name, content, out) ==
    [fs EXCEPT ![name] = IF out = "saved" THEN content ELSE NoFile]

\* app.py:131-135: file.save(local_path) creates or overwrites the file;
\* when it raises the directory is left as it was
SaveLocal(fs, name, content, out) ==
    IF out = "saved" THEN [fs EXCEPT ![name] = content] ELSE fs

\* mutant: the remote URL is kept empty when the remote upload fails
VideoUrl_NoFallback(fs, name, remoteOut) ==
    IF fs[name] = NoFile \/ remoteOut.raised
    THEN EmptyUrl
    ELSE Get(remoteOut.result, "secure_url", EmptyUrl)

\* app.py:138-151: open(local_path) raises when there is no local file, and
\* upload_large may raise; both end in the except branch and the local URL
VideoUrl(fs, name, remoteOut) ==
    IF fs[name] = NoFile \/ remoteOut.raised
    THEN LocalUrl(name)
    ELSE Get(remoteOut.result, "secure_url", EmptyUrl)

\* mutant: the two event names are exchanged
EventName_Swapped(uploader) ==
    IF uploader = "admin" THEN "user_story_upload" ELSE "admin_story_upload"

\* app.py:154
EventName(uploader) ==
    IF uploader = "admin" THEN "admin_story_upload" ELSE "user_story_upload"

\* the bookkeeping every handler does in the model: which request was
\* served and what the files were when it arrived
Served(name, request) ==
    /\ op' = name
    /\ inp' = request
    /\ prevLog' = log
    /\ prevFiles' = files
    /\ UNCHANGED parVars

\* app.py:113-126: the three early returns
Rejection(request) ==
    IF ~request.hasFile THEN "No file part"
    ELSE IF request.filename = <<>> THEN "No selected file"
    ELSE IF ~allowed_file(request.filename) THEN "Unsupported file type"
    ELSE ""

\* app.py:103-158
upload_story_video(request, addr, ts, localOut, remoteOut, logOut) ==
    /\ Served("upload_story_video", request)
    /\ IF Rejection(request) # ""
       THEN /\ resp' = Response(400, "text", Rejection(request), EmptyUrl)
            /\ env' = NoEnv
            /\ UNCHANGED <<log, files>>
       ELSE LET filename == secure_filename(request.filename)
                saved == SaveLocal(files, filename, request.content, localOut)
                opened == saved[filename] # NoFile
                video_url == VideoUrl(saved, filename, remoteOut)
                event_name == EventName(request.uploader)
                row == Row(ts, Ip(addr), event_name, "", "", video_url)
            IN /\ files' = saved
               /\ log' = log_event(log, row, logOut)
               /\ env' = [NoEnv EXCEPT
                            !.local = localOut,
                            !.remote = IF opened THEN remoteOut ELSE NoEnv.remote,
                            !.logw = logOut,
                            !.saves = 1,
                            !.remoteCalls = IF opened THEN 1 ELSE 0,
                            !.appends = 1,
                            !.url = video_url]
               /\ resp' = Response(302, "redirect", "/main", EmptyUrl)

\* ------------------------------------------------------------------- gate
\* a request body that is not JSON: request.get_json() raises before the
\* handler reads anything
BadJson == "<malformed>"

\* data.get(key, '')
Field(body) == IF body = NoField THEN "" ELSE body

\* mutant: the failed attempt is not logged
GateRows_AcceptedOnly(password, addr, ts) ==
    IF password = ADMIN_PASSWORD
    THEN <<Row(ts, Ip(addr), "password_attempt", password, "", EmptyUrl)>>
    ELSE <<>>

\* app.py:91-95: the row logged for an attempt
GateRows(password, addr, ts) ==
    IF password = ADMIN_PASSWORD
    THEN <<Row(ts, Ip(addr), "password_attempt", password, "", EmptyUrl)>>
    ELSE <<Row(ts, Ip(addr), "password_attempt_failed", password, "", EmptyUrl)>>

\* app.py:84-96
save_password(body, addr, ts, logOut) ==
    /\ Served("save_password", [NoInput EXCEPT !.password = body])
    /\ UNCHANGED files
    /\ IF body = BadJson
       THEN /\ resp' = Response(400, "text", "Bad Request", EmptyUrl)
            /\ env' = NoEnv
            /\ UNCHANGED log
       ELSE LET password == Field(body)
                rows == GateRows(password, addr, ts)
            IN /\ log' = IF rows = <<>> THEN log
                         ELSE log_event(log, rows[1], logOut)
               /\ env' = [NoEnv EXCEPT !.logw = logOut, !.appends = Len(rows)]
               /\ resp' = IF password = ADMIN_PASSWORD
                          THEN Response(200, "json_redirect", "/main", EmptyUrl)
                          ELSE Response(200, "json_message", "Wrong password", EmptyUrl)

\* ------------------------------------------------------------------- chat
\* app.py:195-205
log_chat(body, addr, ts, logOut) ==
    /\ Served("log_chat", [NoInput EXCEPT !.chat = body])
    /\ UNCHANGED files
    /\ IF body = BadJson
       THEN /\ resp' = Response(400, "text", "Bad Request", EmptyUrl)
            /\ env' = NoEnv
            /\ UNCHANGED log
       ELSE LET chat_text == Field(body)
                row == Row(ts, Ip(addr), "chat_message", "", chat_text, EmptyUrl)
            IN /\ log' = log_event(log, row, logOut)
               /\ env' = [NoEnv EXCEPT !.logw = logOut, !.appends = 1]
               /\ resp' = Response(200, "json_status", "ok", EmptyUrl)

\* ---------------------------------------------------------------- queries
\* mutant: the query records itself in the log
last_admin_story_Logging(readOut) ==
    /\ Served("last_admin_story", NoInput)
    /\ UNCHANGED files
    /\ log' = IF DataRows(log) < MaxLog
              THEN Append(log, Row("", "unknown", "query", "", "", EmptyUrl))
              ELSE log
    /\ env' = [NoEnv EXCEPT !.read = readOut]
    /\ resp' = Response(200, "json_url", "",
                        find_latest(log, "admin_story_upload", readOut))

\* app.py:160-176
last_admin_story(readOut) ==
    /\ Served("last_admin_story", NoInput)
    /\ UNCHANGED <<log, files>>
    /\ env' = [NoEnv EXCEPT !.read = readOut]
    /\ resp' = Response(200, "json_url", "",
                        find_latest(log, "admin_story_upload", readOut))

\* app.py:178-193
last_user_story(readOut) ==
    /\ Served("last_user_story", NoInput)
    /\ UNCHANGED <<log, files>>
    /\ env' = [NoEnv EXCEPT !.read = readOut]
    /\ resp' = Response(200, "json_url", "",
                        find_latest(log, "user_story_upload", readOut))

\* ------------------------------------------------------------ specification
\* upload requests that are rejected: the handler returns before it reads
\* the other fields, which are left out
RejectedUploads ==
    { NoInput } \cup
    { [NoInput EXCEPT !.hasFile = TRUE, !.filename = f] :
        f \in {g \in Filenames : ~allowed_file(g)} }

\* upload requests that pass validation
ValidUploads ==
    { [NoInput EXCEPT !.hasFile = TRUE, !.filename = f,
                      !.uploader = u, !.content = ContentOf(f)] :
        f \in {g \in Filenames : allowed_file(g)}, u \in Uploaders }

UploadRejected ==
    \E request \in RejectedUploads, addr \in RemoteAddrs, ts \in Timestamps :
        upload_story_video(request, addr, ts, "raised",
                           [raised |-> TRUE, result |-> NoResult], "raised")

UploadValid ==
    /\ DataRows(log) < MaxLog
    /\ \E request \in ValidUploads, addr \in RemoteAddrs, ts \in Timestamps,
       localOut \in LocalOutcomes, remoteOut \in RemoteOutcomes,
       logOut \in LogOutcomes :
        upload_story_video(request, addr, ts, localOut, remoteOut, logOut)

Gate ==
    /\ DataRows(log) < MaxLog
    /\ \E body \in Passwords \cup {BadJson}, addr \in RemoteAddrs,
       ts \in Timestamps, logOut \in LogOutcomes :
        save_password(body, addr, ts, logOut)

Chat ==
    /\ DataRows(log) < MaxLog
    /\ \E body \in Chats \cup {BadJson}, addr \in RemoteAddrs,
       ts \in Timestamps, logOut \in LogOutcomes :
        log_chat(body, addr, ts, logOut)

QueryAdmin == \E readOut \in ReadOutcomes : last_admin_story(readOut)
QueryUser == \E readOut \in ReadOutcomes : last_user_story(readOut)

Next ==
    \/ UploadRejected
    \/ UploadValid
    \/ Gate
    \/ Chat
    \/ QueryAdmin
    \/ QueryUser

Spec == Init /\ [][Next]_vars

\* ------------------------------------------------- requests served in parallel
\* SpecPar serves MaxProcs requests at once, each handler advancing one call
\* at a time, so that the calls of different requests interleave.  A call
\* to an external service is a step of its own: the service answers, or
\* never does.

\* the requests a client sends in SpecPar
ParRequests ==
    { [kind |-> "upload", hasFile |-> TRUE, filename |-> <<"a",".","m","p","4">>,
       uploader |-> "admin", body |-> NoField],
      [kind |-> "upload", hasFile |-> TRUE,
       filename |-> <<"n","o","t","e","s",".","t","x","t">>,
       uploader |-> NoField, body |-> NoField],
      [kind |-> "gate", hasFile |-> FALSE, filename |-> <<>>,
       uploader |-> NoField, body |-> "guess"],
      [kind |-> "gate", hasFile |-> FALSE, filename |-> <<>>,
       uploader |-> NoField, body |-> "mrshaik"],
      [kind |-> "chat", hasFile |-> FALSE, filename |-> <<>>,
       uploader |-> NoField, body |-> "hello"] }

\* the address and the clock reading of the requests of SpecPar
ParAddr == "10.0.0.7"
ParTime == "2026-01-01 00:00:00"

\* request p moves to label, having taken steps
Goto(p, label, steps) ==
    /\ pc' = [pc EXCEPT ![p] = label]
    /\ trace' = [trace EXCEPT ![p] = @ \o steps]

\* a request arrives
ParStart(p, request) ==
    /\ pc[p] = "idle"
    /\ req' = [req EXCEPT ![p] = request]
    /\ Goto(p, "received", <<"received">>)
    /\ UNCHANGED <<log, files, seqVars, hookUrl, prow, pos, vurl, presp>>

\* app.py:93, 96, 158, 205: the response of the handler of request r
HandlerResponse(r) ==
    CASE r.kind = "upload" -> Response(302, "redirect", "/main", EmptyUrl)
      [] r.kind = "gate" ->
            IF Field(r.body) = ADMIN_PASSWORD
            THEN Response(200, "json_redirect", "/main", EmptyUrl)
            ELSE Response(200, "json_message", "Wrong password", EmptyUrl)
      [] OTHER -> Response(200, "json_status", "ok", EmptyUrl)

\* log_event returns and the handler returns its response
ParRespond(p, steps) ==
    /\ presp' = [presp EXCEPT ![p] = HandlerResponse(req[p])]
    /\ Goto(p, "done", steps \o <<"responded">>)

\* mutant: a failed log write is answered with status 500
ParHook_FailOnLogError(p, steps) ==
    IF steps = <<"log_raised">>
    THEN /\ presp' = [presp EXCEPT ![p] =
                         Response(500, "text", "Internal Server Error", EmptyUrl)]
         /\ Goto(p, "done", steps \o <<"responded">>)
    ELSE IF hookUrl = ""
         THEN ParRespond(p, steps)
         ELSE Goto(p, "hook_wait", steps \o <<"hook_post">>) /\ UNCHANGED presp

\* app.py:65-74: after the CSV write, the POST to the webhook when one is
\* configured; without one log_event returns
ParHook(p, steps) ==
    IF hookUrl = ""
    THEN ParRespond(p, steps)
    ELSE Goto(p, "hook_wait", steps \o <<"hook_post">>) /\ UNCHANGED presp

\* app.py:113-126
ParValidate(p) ==
    /\ pc[p] = "received" /\ req[p].kind = "upload"
    /\ IF Rejection(req[p]) # ""
       THEN /\ presp' = [presp EXCEPT ![p] =
                            Response(400, "text", Rejection(req[p]), EmptyUrl)]
            /\ Goto(p, "done", <<"rejected">>)
       ELSE /\ Goto(p, "validated", <<"validated">>)
            /\ UNCHANGED presp
    /\ UNCHANGED <<log, files, seqVars, hookUrl, req, prow, pos, vurl>>

\* app.py:129-135
ParSaveLocal(p, localOut) ==
    /\ pc[p] = "validated"
    /\ files' = SaveLocal(files, secure_filename(req[p].filename),
                          ContentOf(req[p].filename), localOut)
    /\ Goto(p, "saved", <<"local_save">>)
    /\ UNCHANGED <<log, seqVars, hookUrl, req, prow, pos, vurl, presp>>

\* app.py:153-155: video_url is settled and log_event is called with it
ParStored(p, url, steps) ==
    /\ vurl' = [vurl EXCEPT ![p] = url]
    /\ prow' = [prow EXCEPT ![p] =
                  Row(ParTime, Ip(ParAddr), EventName(req[p].uploader),
                      "", "", url)]
    /\ Goto(p, "log_open", steps \o <<"stored", "log_event">>)

\* app.py:139-140: open(local_path, 'rb') raises when there is no file, and
\* the except branch of app.py:148-151 sets the local URL; otherwise
\* upload_large is called
ParOpenLocal(p) ==
    LET filename == secure_filename(req[p].filename)
    IN /\ pc[p] = "saved"
       /\ IF files[filename] = NoFile
          THEN ParStored(p, VideoUrl(files, filename,
                                     [raised |-> TRUE, result |-> NoResult]),
                         <<"open_raised">>)
          ELSE /\ Goto(p, "remote_wait", <<"remote_call">>)
               /\ UNCHANGED <<vurl, prow>>
       /\ UNCHANGED <<log, files, seqVars, hookUrl, req, pos, presp>>

\* app.py:141-151: upload_large returns or raises
ParRemoteReturn(p, remoteOut) ==
    /\ pc[p] = "remote_wait"
    /\ ParStored(p, VideoUrl(files, secure_filename(req[p].filename), remoteOut),
                 <<"remote_return">>)
    /\ UNCHANGED <<log, files, seqVars, hookUrl, req, pos, presp>>

\* app.py:141-145: upload_large is called without a timeout; when the media
\* host never answers the call never returns
ParRemoteStall(p) ==
    /\ pc[p] = "remote_wait"
    /\ Goto(p, "remote_hung", <<"remote_stalled">>)
    /\ UNCHANGED <<log, files, seqVars, hookUrl, req, prow, pos, vurl, presp>>

\* app.py:87-95
ParGate(p) ==
    LET rows == GateRows(Field(req[p].body), ParAddr, ParTime)
    IN /\ pc[p] = "received" /\ req[p].kind = "gate"
       /\ IF rows = <<>>
          THEN ParRespond(p, <<"not_logged">>) /\ UNCHANGED prow
          ELSE /\ prow' = [prow EXCEPT ![p] = rows[1]]
               /\ Goto(p, "log_open", <<"log_event">>)
               /\ UNCHANGED presp
       /\ UNCHANGED <<log, files, seqVars, hookUrl, req, pos, vurl>>

\* app.py:201-204
ParChat(p) ==
    /\ pc[p] = "received" /\ req[p].kind = "chat"
    /\ prow' = [prow EXCEPT ![p] =
                  Row(ParTime, Ip(ParAddr), "chat_message", "",
                      Field(req[p].body), EmptyUrl)]
    /\ Goto(p, "log_open", <<"log_event">>)
    /\ UNCHANGED <<log, files, seqVars, hookUrl, req, pos, vurl, presp>>

\* app.py:58: open(LOG_FILE, 'a'); a failure is caught at app.py:61
ParLogOpen(p, logOut) ==
    /\ pc[p] = "log_open"
    /\ IF logOut = "raised"
       THEN ParHook(p, <<"log_raised">>)
       ELSE Goto(p, "log_flush", <<"log_open">>) /\ UNCHANGED presp
    /\ UNCHANGED <<log, files, seqVars, hookUrl, req, prow, pos, vurl>>

\* app.py:58-60 where the platform appends atomically (O_APPEND on a local
\* POSIX file system): the row buffered by writerow is written at the end of
\* the file in one step when the file is closed
ParLogAppend(p) ==
    /\ pc[p] = "log_flush"
    /\ log' = log_event(log, prow[p], "written")
    /\ ParHook(p, <<"log_append">>)
    /\ UNCHANGED <<files, seqVars, hookUrl, req, prow, pos, vurl>>

\* app.py:58-60 where append mode is a seek to the end followed by a write
\* (the Windows C runtime, NFS): the seek
ParLogSeek(p) ==
    /\ pc[p] = "log_flush"
    /\ pos' = [pos EXCEPT ![p] = Len(log)]
    /\ Goto(p, "log_write", <<"log_seek">>)
    /\ UNCHANGED <<log, files, seqVars, hookUrl, req, prow, vurl, presp>>

\* the file after a row is written at offset at (counted in rows): behind the
\* last row when at is the end of the file, over the row at that offset
\* otherwise
WriteAt(f, at, r) ==
    IF at >= Len(f) THEN Append(f, r) ELSE [f EXCEPT ![at + 1] = r]

\* ... and the write at the offset the seek found
ParLogWriteAt(p) ==
    /\ pc[p] = "log_write"
    /\ log' = WriteAt(log, pos[p], prow[p])
    /\ ParHook(p, <<"log_append">>)
    /\ UNCHANGED <<files, seqVars, hookUrl, req, prow, pos, vurl>>

\* app.py:74-76: requests.post returns, or raises and is caught
ParHookReturn(p) ==
    /\ pc[p] = "hook_wait"
    /\ ParRespond(p, <<"hook_return">>)
    /\ UNCHANGED <<log, files, seqVars, hookUrl, req, prow, pos, vurl>>

\* the webhook never answers
ParHookStall(p) ==
    /\ pc[p] = "hook_wait"
    /\ Goto(p, "hook_hung", <<"hook_stalled">>)
    /\ UNCHANGED <<log, files, seqVars, hookUrl, req, prow, pos, vurl, presp>>

\* app.py:74: timeout=5 ends the wait with an exception, caught at app.py:75
ParHookTimeout(p) ==
    /\ pc[p] = "hook_hung"
    /\ ParRespond(p, <<"hook_timeout">>)
    /\ UNCHANGED <<log, files, seqVars, hookUrl, req, prow, pos, vurl>>

\* the steps of request p
ParStep(p) ==
    \/ \E request \in ParRequests : ParStart(p, request)
    \/ ParValidate(p)
    \/ \E localOut \in LocalOutcomes : ParSaveLocal(p, localOut)
    \/ ParOpenLocal(p)
    \/ \E remoteOut \in RemoteOutcomes : ParRemoteReturn(p, remoteOut)
    \/ ParRemoteStall(p)
    \/ ParGate(p)
    \/ ParChat(p)
    \/ \E logOut \in LogOutcomes : ParLogOpen(p, logOut)
    \/ ParLogAppend(p)
    \/ ParLogSeek(p)
    \/ ParLogWriteAt(p)
    \/ ParHookReturn(p)
    \/ ParHookStall(p)
    \/ ParHookTimeout(p)

\* as Init, with or without a webhook configured (app.py:41)
InitPar ==
    /\ log = <<Header>>
    /\ files = [n \in StoredNames |-> NoFile]
    /\ op = "start"
    /\ inp = NoInput
    /\ env = NoEnv
    /\ resp = Response(0, "none", "", EmptyUrl)
    /\ prevLog = <<Header>>
    /\ prevFiles = [n \in StoredNames |-> NoFile]
    /\ hookUrl \in {"", "https://script.example/exec"}
    /\ Idle

NextPar == \E p \in Procs : ParStep(p)

SpecPar == InitPar /\ [][NextPar]_vars

\* the runtime runs every request's thread: a request that can take a step
\* eventually takes one
SpecParFair == SpecPar /\ \A p \in Procs : WF_vars(ParStep(p))

\* ================================================================== claims
\* s is a prefix of t
IsPrefix(s, t) == Len(s) <= Len(t) /\ SubSeq(t, 1, Len(s)) = s

\* the file name ends in "." followed by an extension of the allow-list,
\* letter case aside
EndsInAllowedExtension(f) ==
    \E e \in ALLOWED_EXTENSIONS :
        /\ Len(f) > Len(e)
        /\ f[Len(f) - Len(e)] = "."
        /\ \A i \in 1..Len(e) : Lower(f[Len(f) - Len(e) + i]) = e[i]

\* the last request was an upload of one of the three rejected shapes
RejectedShape ==
    /\ op = "upload_story_video"
    /\ \/ ~inp.hasFile
       \/ inp.filename = <<>>
       \/ ~EndsInAllowedExtension(inp.filename)

\* the last request was an upload that ended with the redirect to /main
UploadDone ==
    /\ op = "upload_story_video"
    /\ resp.kind = "redirect"

\* the last request appended exactly this one row to the log
AppendedOne(r) == log = Append(prevLog, r)

\* C1: an upload request without a 'video' field, with an empty file name or
\* with a file name whose extension is not in the allow-list is answered
\* with status 400, and the log file and the upload directory are the same
\* after it as before it: no append, no local write, no remote call.
C1_RejectedUploadHasNoEffect ==
    RejectedShape =>
        /\ resp.status = 400
        /\ log = prevLog
        /\ files = prevFiles
        /\ env.appends = 0 /\ env.saves = 0 /\ env.remoteCalls = 0

\* a file name with a disallowed extension was rejected while the log and
\* the upload directory had content to lose
C1_Witness ==
    /\ RejectedShape
    /\ inp.hasFile /\ LastDot(inp.filename) # 0
    /\ resp.text = "Unsupported file type"
    /\ DataRows(log) > 0
    /\ \E n \in DOMAIN files : files[n] # NoFile

MostRecent(f, kind) ==
    LET hits == {i \in 2..Len(f) : f[i][3] = kind /\ f[i][6] # EmptyUrl}
    IN IF hits = {} THEN EmptyUrl
       ELSE f[CHOOSE i \in hits : \A j \in hits : j <= i][6]

\* the event kind a query endpoint looks for
QueryKind ==
    IF op = "last_admin_story" THEN "admin_story_upload" ELSE "user_story_upload"

Queried == op \in {"last_admin_story", "last_user_story"}

\* C3: a query that could read the log returns the story_url of the most
\* recently appended row of its kind with a non-empty story_url: a later
\* matching row shadows every earlier one.
C3_FindLatestIsMostRecent ==
    (Queried /\ env.read = "read") => resp.url = MostRecent(log, QueryKind)

\* a query answered with the URL of the later of two rows of its kind that
\* carry different URLs
C3_Witness ==
    /\ Queried /\ env.read = "read"
    /\ \E i, j \in 2..Len(log) :
          /\ i < j
          /\ log[i][3] = QueryKind /\ log[j][3] = QueryKind
          /\ log[i][6] # log[j][6]
          /\ resp.url = log[j][6]

\* C4: on a log without data rows, without a row of the queried kind, or
\* that cannot be read, a query answers normally (status 200, a JSON body)
\* with the empty URL.
C4_FindLatestDegradesToEmpty ==
    (/\ Queried
     /\ \/ DataRows(log) = 0
        \/ \A i \in 2..Len(log) : log[i][3] # QueryKind
        \/ env.read = "raised")
    => /\ resp.status = 200
       /\ resp.kind = "json_url"
       /\ resp.url = EmptyUrl

\* a query whose read failed although the log holds a row of its kind
C4_Witness ==
    /\ Queried
    /\ env.read = "raised"
    /\ \E i \in 2..Len(log) : log[i][3] = QueryKind
    /\ resp.url = EmptyUrl

\* the except branch of app.py:148 was taken: the remote step failed
RemoteStepFailed ==
    /\ UploadDone
    /\ \/ env.remoteCalls = 0
       \/ env.remote.raised

\* C5 as claimed: whenever the remote step of a validated upload fails, the
\* story URL is non-empty, is the /uploads route followed by the sanitized
\* name, and a file of that name exists in the upload directory.
C5_FallbackServesAnExistingFile ==
    RemoteStepFailed =>
        /\ env.url # EmptyUrl
        /\ env.url = LocalUrl(secure_filename(inp.filename))
        /\ files[secure_filename(inp.filename)] # NoFile

\* C7: every step leaves the rows the log already had in place: the log
\* before the step is a prefix of the log after it.
C7_LogIsAppendOnly == [][IsPrefix(log, log')]_vars

\* a chat row was appended behind an earlier row
C7_Witness ==
    /\ op = "log_chat"
    /\ DataRows(prevLog) > 0
    /\ Len(log) = Len(prevLog) + 1

\* the last request was a gate check with a credential in its body
GateChecked == op = "save_password" /\ inp.password # BadJson

C10_StoredBytesNeverChange ==
    [][\A n \in DOMAIN files : files[n] # NoFile => files'[n] = files[n]]_vars

\* C10 amended: a stored file is never deleted, and its bytes change only in
\* an upload whose file name sanitizes to the name it is stored under;
\* uploads under other names, rejected uploads, queries, chats and gate
\* checks leave it as it is.
C10_StoredBytesChangeOnlyBySameName ==
    [][\A n \in DOMAIN files :
          files[n] # NoFile =>
             /\ files'[n] # NoFile
             /\ files'[n] # files[n] =>
                   /\ op' = "upload_story_video"
                   /\ resp'.kind = "redirect"
                   /\ EndsInAllowedExtension(inp'.filename)
                   /\ secure_filename(inp'.filename) = n]_vars

\* an upload overwrote the bytes stored under its sanitized name while
\* another stored file stayed as it was
C10_Witness ==
    /\ UploadDone
    /\ \E n, m \in DOMAIN files :
          /\ n # m
          /\ prevFiles[n] = "video-1" /\ files[n] = "video-2"
          /\ prevFiles[m] # NoFile /\ files[m] = prevFiles[m]

\* request p has written its row to the log file
Wrote(p) == \E i \in 1..Len(trace[p]) : trace[p][i] = "log_append"

\* C6 as claimed: the log holds exactly one row for every append made by the
\* requests running in parallel, and the row of each of them is in it: none
\* is lost or overwritten, in any interleaving.
C6_ParallelAppendsKeepEveryRow ==
    /\ DataRows(log) = Cardinality({p \in Procs : Wrote(p)})
    /\ \A p \in Procs :
          Wrote(p) => \E i \in 2..Len(log) : log[i] = prow[p]

\* C9 as claimed: every request that was received ends with its response,
\* also when the media host or the webhook never answers.
C9_EveryRequestIsAnswered ==
    \A p \in Procs : (pc[p] = "received") ~> (pc[p] = "done")

\* the event kinds of the two actor classes
StoryKinds == {"admin_story_upload", "user_story_upload"}

\* C11 as claimed: every story-upload row of the log comes after a
\* password_attempt row, the record of an accepted gate check: no upload is
\* processed before the gate has accepted the credential.
C11_UploadOnlyAfterAcceptedGate ==
    \A i \in 2..Len(log) :
        log[i][3] \in StoryKinds =>
            \E j \in 2..(i - 1) : log[j][3] = "password_attempt"

\* the last request was a chat post with a JSON body
ChatPosted == op = "log_chat" /\ inp.chat # BadJson

StepState(step) ==
    CASE step = "received" -> 1
      [] step = "validated" -> 2
      [] step = "local_save" -> 3
      [] step \in {"open_raised", "remote_call", "remote_return",
                   "remote_stalled"} -> 4
      [] step = "stored" -> 5
      [] step \in {"log_event", "log_raised", "log_open", "log_seek",
                   "log_append", "hook_post", "hook_return", "hook_stalled",
                   "hook_timeout"} -> 6
      [] step = "responded" -> 7
      [] OTHER -> 0

\* step occurs in the steps t
Took(t, step) == \E i \in 1..Len(t) : t[i] = step

\* the steps request p has taken follow the state machine: they start at
\* RECEIVED, never go back, never jump over a state, and an early exit is
\* taken from RECEIVED only, by a request that fails validation, which then
\* is answered with status 400 and does nothing else; a request that fails
\* validation gets no further; no row is written before STORED
UploadStepsInOrder(p) ==
    LET t == trace[p]
    IN /\ t # <<>> => t[1] = "received"
       /\ \A i \in 1..(Len(t) - 1) :
             IF t[i + 1] = "rejected"
             THEN /\ i = 1 /\ Len(t) = 2
                  /\ Rejection(req[p]) # ""
                  /\ pc[p] = "done" /\ presp[p].status = 400
             ELSE /\ StepState(t[i + 1]) >= StepState(t[i])
                  /\ StepState(t[i + 1]) <= StepState(t[i]) + 1
                  /\ Rejection(req[p]) = ""
       /\ \A i, j \in 1..Len(t) :
             (t[i] = "log_append" /\ t[j] = "stored") => j < i
       /\ pc[p] = "done" => t[Len(t)] \in {"responded", "rejected"}
       /\ (pc[p] = "done" /\ Took(t, "responded")) =>
             presp[p] = Response(302, "redirect", "/main", EmptyUrl)

\* C13 as claimed: every upload request takes the steps of the state machine
\* in order, and a validated upload that has been answered has made the
\* local write attempt, then the remote upload attempt, then the log append:
\* no step is skipped.
C13_UploadFollowsStateMachine ==
    \A p \in Procs :
        req[p].kind = "upload" =>
            /\ UploadStepsInOrder(p)
            /\ (pc[p] = "done" /\ Took(trace[p], "responded")) =>
                  /\ Took(trace[p], "local_save")
                  /\ Took(trace[p], "remote_call")
                  /\ Took(trace[p], "log_event")

\* C14: a request is answered with an error status only when its input is
\* malformed.  A validated upload is answered with the redirect to the
\* dashboard, a gate check with the redirect instruction or the message
\* according to the credential alone, a chat with {status: ok}, whichever of
\* the local write, the remote upload, the log write and the webhook call
\* failed on the way.
C14_OnlyMalformedInputErrors ==
    \A p \in Procs :
        pc[p] = "done" =>
            /\ presp[p].status >= 400 =>
                  (req[p].kind = "upload" /\ Rejection(req[p]) # "")
            /\ (req[p].kind = "upload" /\ Rejection(req[p]) = "") =>
                  presp[p] = Response(302, "redirect", "/main", EmptyUrl)
            /\ req[p].kind = "gate" =>
                  presp[p] = (IF req[p].body = ADMIN_PASSWORD
                              THEN Response(200, "json_redirect", "/main", EmptyUrl)
                              ELSE Response(200, "json_message", "Wrong password",
                                            EmptyUrl))
            /\ req[p].kind = "chat" =>
                  presp[p] = Response(200, "json_status", "ok", EmptyUrl)

\* an upload whose local write, remote step, log write and webhook call all
\* failed was answered with the redirect
C14_Witness ==
    \E p \in Procs :
        /\ pc[p] = "done" /\ req[p].kind = "upload"
        /\ Rejection(req[p]) = ""
        /\ files[secure_filename(req[p].filename)] = NoFile
        /\ Took(trace[p], "open_raised")
        /\ Took(trace[p], "log_raised")
        /\ Took(trace[p], "hook_timeout")
        /\ presp[p].status = 302

\* upload_large was called and returned
RemoteSucceeded == env.remoteCalls = 1 /\ ~env.remote.raised

C16_ExactlyOneRemoteAttempt ==
    UploadDone =>
        /\ env.saves = 1
        /\ env.remoteCalls = 1
        /\ env.appends = 1

\* the two query handlers
Queries == {"last_admin_story", "last_user_story"}

\* C17: a query leaves the log file and the upload directory as they are,
\* and a query that directly follows a query of the same kind returns the
\* same URL, both having read the log.
C17_QueriesArePure ==
    [][op' \in Queries =>
          /\ log' = log
          /\ files' = files
          /\ (op = op' /\ env.read = "read" /\ env'.read = "read") =>
                resp'.url = resp.url]_vars

\* a query answered with a URL from a log and an upload directory that hold
\* something, both left as they were
C17_Witness ==
    /\ Queried /\ env.read = "read"
    /\ resp.url # EmptyUrl
    /\ DataRows(log) > 0 /\ log = prevLog
    /\ files = prevFiles /\ \E n \in DOMAIN files : files[n] # NoFile

\* the query handler of the actor class of an uploader field
QueryOf(uploader) ==
    IF uploader = "admin" THEN "last_admin_story" ELSE "last_user_story"

====
